---- MODULE Spec2Model ----
(***************************************************************************)
(* Model of src/main.rs: an axum service with three handlers that obtain   *)
(* a DataRepo either from the shared AppState (State extractor) or from    *)
(* the StateDataRepo request extractor (FromRef projection).               *)
(*                                                                         *)
(* Each in-flight request occupies a slot of reqs and advances through     *)
(*   idle -> ready -> awaiting -> done -> idle                             *)
(* (routing and extractors, handler body up to the retrieve().await,       *)
(* resumption with the result and the response, response sent).  Slots     *)
(* interleave freely, as tasks of the tokio runtime do.                    *)
(***************************************************************************)
EXTENDS Integers, FiniteSets, Sequences, TLC

VARIABLES app_state, router, reqs

vars == <<app_state, router, reqs>>

(***************************************************************************)
(* Bounds of the model.                                                    *)
(***************************************************************************)
\* number of requests that may be in flight at once
NumReq == 2

(***************************************************************************)
(* Program constants.                                                      *)
(***************************************************************************)
InvalidFrom == 1024
NotFoundAbove == 10
BasicId == 100
OK == 200
BAD_REQUEST == 400
NOT_FOUND == 404
IM_A_TEAPOT == 418
TestMockId == 50

Reqs == 1 .. NumReq

\* path ids of the requests: the least id, the id of the tests and the ids on
\* both sides of each boundary of ProdDataRepo::retrieve
Ids == {0, TestMockId,
        NotFoundAbove - 1, NotFoundAbove, NotFoundAbove + 1,
        InvalidFrom - 1, InvalidFrom, InvalidFrom + 1}

(***************************************************************************)
(* Data model: Data, DataRepoError, Result<Data, DataRepoError>.           *)
(***************************************************************************)
DataRepoError == {"NotFound", "InvalidRequest"}

Data(id) == [id |-> id]

Ok(data) == [tag |-> "Ok", data |-> data, err |-> "none"]

Err(e) == [tag |-> "Err", data |-> Data(0), err |-> e]

\* placeholder of a slot in which retrieve has not returned
NoResult == [tag |-> "none", data |-> Data(0), err |-> "none"]

(***************************************************************************)
(* Repositories.  A DynDataRepo is an Arc<dyn DataRepo>: inst is the       *)
(* identity of the allocation the Arc points to, impl the concrete type    *)
(* behind the trait object, res the field of MockDataRepo.                 *)
(***************************************************************************)
DynDataRepo(impl, inst, res) == [impl |-> impl, inst |-> inst, res |-> res]

NoRepo == DynDataRepo("none", -1, NoResult)

\* the allocation made once when the service (or a test) is constructed
SharedInst == 0

ProdArc == DynDataRepo("ProdDataRepo", SharedInst, NoResult)

MockArc(res) == DynDataRepo("MockDataRepo", SharedInst, res)

AppState(data_repo) == [type |-> "AppState", data_repo |-> data_repo]

MockState == [type |-> "MockState", data_repo |-> NoRepo]

UnitState == [type |-> "Unit", data_repo |-> NoRepo]

NoState == [type |-> "none", data_repo |-> NoRepo]

\* ProdDataRepo::retrieve with the upper boundary off by one (id > 1_024)
ProdDataRepo_retrieve_offByOne(id) ==
    IF id > InvalidFrom THEN Err("InvalidRequest")
    ELSE IF id > NotFoundAbove THEN Err("NotFound")
    ELSE Ok(Data(id))

\* ProdDataRepo::retrieve that answers NotFound while another response is
\* still being sent: an outcome that depends on more than the id
ProdDataRepo_retrieve_stateful(id) ==
    IF \E r \in DOMAIN reqs : reqs[r].pc = "done" THEN Err("NotFound")
    ELSE IF id >= InvalidFrom THEN Err("InvalidRequest")
    ELSE IF id > NotFoundAbove THEN Err("NotFound")
    ELSE Ok(Data(id))

\* ProdDataRepo::retrieve
ProdDataRepo_retrieve(id) ==
    IF id >= InvalidFrom THEN Err("InvalidRequest")
    ELSE IF id > NotFoundAbove THEN Err("NotFound")
    ELSE Ok(Data(id))

\* MockDataRepo::retrieve that echoes the requested id in place of the stored one
MockDataRepo_retrieve_echo(repo, id) ==
    IF repo.res.tag = "Ok" THEN Ok(Data(id)) ELSE Err(repo.res.err)

\* tests::MockDataRepo::retrieve: a clone of the stored result
MockDataRepo_retrieve(repo, id) ==
    IF repo.res.tag = "Ok" THEN Ok(Data(repo.res.data.id)) ELSE Err(repo.res.err)

\* FixedMock::retrieve that accepts the ids the production repository accepts
FixedMock_retrieve_accepting(id) ==
    IF id > NotFoundAbove THEN Err("NotFound") ELSE Ok(Data(id))

\* tests::FixedMock::retrieve
FixedMock_retrieve(id) == Err("NotFound")

\* dynamic dispatch of DataRepo::retrieve through the trait object
retrieve(repo, id) ==
    CASE repo.impl = "ProdDataRepo" -> ProdDataRepo_retrieve(id)
      [] repo.impl = "MockDataRepo" -> MockDataRepo_retrieve(repo, id)
      [] repo.impl = "FixedMock" -> FixedMock_retrieve(id)

(***************************************************************************)
(* Extraction.                                                             *)
(***************************************************************************)
\* from_ref that allocates a new Arc in place of cloning the one in the state
from_ref_AppState_realloc(state) ==
    DynDataRepo(state.data_repo.impl, SharedInst + 1, state.data_repo.res)

\* impl FromRef<AppState> for DynDataRepo: a clone of the Arc in the state
from_ref_AppState(state) == state.data_repo

\* tests: impl FromRef<MockState> for DynDataRepo: a new Arc per call;
\* alloc is the identity of the new allocation
from_ref_MockState(state, alloc) == DynDataRepo("FixedMock", alloc, NoResult)

\* DynDataRepo::from_ref(state), resolved on the state type S
from_ref(state, alloc) ==
    IF state.type = "AppState" THEN from_ref_AppState(state)
    ELSE from_ref_MockState(state, alloc)

\* from_request_parts that rejects every state other than AppState
from_request_parts_fallible(state, alloc) ==
    [rejected |-> state.type # "AppState", repo |-> from_ref(state, alloc)]

\* StateDataRepo::from_request_parts: Result<StateDataRepo, Infallible>
from_request_parts(state, alloc) ==
    [rejected |-> FALSE, repo |-> from_ref(state, alloc)]

\* derive(Clone) for AppState, used by the State<AppState> extractor
AppState_clone(state) == [type |-> state.type, data_repo |-> state.data_repo]

(***************************************************************************)
(* Responses.  A JSON body is an object with one member.                   *)
(***************************************************************************)
JsonNum(key, n) == [key |-> key, isNum |-> TRUE, num |-> n, str |-> ""]

JsonStr(key, s) == [key |-> key, isNum |-> FALSE, num |-> 0, str |-> s]

\* derive(Serialize) for Data
Serialize(data) == JsonNum("id", data.id)

Response(status, body) == [status |-> status, body |-> body]

NoResponse == Response(0, JsonStr("", ""))

\* basic_handler with the body of the other variant of the service
basic_handler_status == Response(OK, JsonStr("status", "ok"))

\* basic_handler
basic_handler == Response(OK, JsonNum("id", BasicId))

\* data_state_handler with the statuses of the two error arms exchanged
data_state_handler_swapped(result) ==
    CASE result.tag = "Ok" -> Response(OK, Serialize(result.data))
      [] result.tag = "Err" /\ result.err = "InvalidRequest" ->
             Response(NOT_FOUND, JsonStr("status", "bad id"))
      [] result.tag = "Err" /\ result.err = "NotFound" ->
             Response(BAD_REQUEST, JsonStr("status", "not found"))

\* the match of data_state_handler on the result of retrieve
data_state_handler(result) ==
    CASE result.tag = "Ok" -> Response(OK, Serialize(result.data))
      [] result.tag = "Err" /\ result.err = "InvalidRequest" ->
             Response(BAD_REQUEST, JsonStr("status", "bad id"))
      [] result.tag = "Err" /\ result.err = "NotFound" ->
             Response(NOT_FOUND, JsonStr("status", "not found"))

\* data_extract_handler that tells NotFound apart, as data_state_handler does
data_extract_handler_fine(result) ==
    CASE result.tag = "Ok" -> Response(OK, Serialize(result.data))
      [] result.tag = "Err" /\ result.err = "NotFound" ->
             Response(NOT_FOUND, JsonStr("status", "not found"))
      [] OTHER -> Response(IM_A_TEAPOT, JsonStr("status", "teapot"))

\* the match of data_extract_handler on the result of retrieve
data_extract_handler(result) ==
    IF result.tag = "Ok" THEN Response(OK, Serialize(result.data))
    ELSE Response(IM_A_TEAPOT, JsonStr("status", "teapot"))

(***************************************************************************)
(* Services: the state and route table of main and of the three tests.     *)
(***************************************************************************)
\* run_server: the route table of the production service
run_server ==
    [route \in {"/", "/data/:id", "/pot/:id"} |->
        CASE route = "/" -> "basic_handler"
          [] route = "/data/:id" -> "data_state_handler"
          [] route = "/pot/:id" -> "data_extract_handler"]

\* main: the production repository behind one Arc, served by run_server
main == [state |-> AppState(ProdArc), router |-> run_server]

test_basic_handler ==
    [state |-> UnitState, router |-> [route \in {"/"} |-> "basic_handler"]]

test_mocked_data_state_handler ==
    [state |-> AppState(MockArc(Ok(Data(TestMockId)))),
     router |-> [route \in {"/:id"} |-> "data_state_handler"]]

test_mocked_extract_handler ==
    [state |-> MockState,
     router |-> [route \in {"/:id"} |-> "data_extract_handler"]]

\* results a MockDataRepo may be constructed with
MockResults ==
    {Ok(Data(TestMockId)), Ok(Data(InvalidFrom))} \cup {Err(e) : e \in DataRepoError}

\* run_server accepts any AppState: the mock repositories behind both routes
MockedServices ==
    {[state |-> AppState(MockArc(res)), router |-> run_server] : res \in MockResults}

Services ==
    {main, test_basic_handler, test_mocked_data_state_handler,
     test_mocked_extract_handler} \cup MockedServices

(***************************************************************************)
(* Requests.                                                               *)
(***************************************************************************)
IdleReq ==
    [pc |-> "idle", route |-> "none", handler |-> "none", id |-> 0,
     state |-> NoState, data_repo |-> NoRepo, rejected |-> FALSE,
     callee |-> NoRepo, outcome |-> NoResult, resp |-> NoResponse]

Init ==
    /\ \E svc \in Services :
          /\ app_state = svc.state
          /\ router = svc.router
    /\ reqs = [r \in Reqs |-> IdleReq]

\* the router matches the path, parses the id segment and runs the extractors
\* of the handler's parameters, all before the handler's body
Receive(r, route, id) ==
    /\ reqs[r].pc = "idle"
    /\ route \in DOMAIN router
    /\ route = "/" => id = 0
    /\ LET h == router[route]
           ex == from_request_parts(app_state, r)
           req == [IdleReq EXCEPT !.pc = "ready", !.route = route,
                                  !.handler = h, !.id = id]
       IN  reqs' = [reqs EXCEPT ![r] =
             CASE h = "basic_handler" -> req
               [] h = "data_state_handler" ->
                     [req EXCEPT !.state = AppState_clone(app_state)]
               [] h = "data_extract_handler" ->
                     IF ex.rejected
                     THEN [req EXCEPT !.pc = "done", !.rejected = TRUE]
                     ELSE [req EXCEPT !.data_repo = ex.repo]]
    /\ UNCHANGED <<app_state, router>>

BasicHandler(r) ==
    /\ reqs[r].pc = "ready"
    /\ reqs[r].handler = "basic_handler"
    /\ reqs' = [reqs EXCEPT ![r] = [@ EXCEPT !.pc = "done", !.resp = basic_handler]]
    /\ UNCHANGED <<app_state, router>>

\* data_state_handler up to state.data_repo.retrieve(id).await
DataStateHandlerCall(r) ==
    /\ reqs[r].pc = "ready"
    /\ reqs[r].handler = "data_state_handler"
    /\ reqs' = [reqs EXCEPT ![r] =
                  [@ EXCEPT !.pc = "awaiting", !.callee = reqs[r].state.data_repo]]
    /\ UNCHANGED <<app_state, router>>

\* data_state_handler from the completion of retrieve to the response
DataStateHandlerResume(r) ==
    /\ reqs[r].pc = "awaiting"
    /\ reqs[r].handler = "data_state_handler"
    /\ LET result == retrieve(reqs[r].callee, reqs[r].id)
       IN  reqs' = [reqs EXCEPT ![r] =
                      [@ EXCEPT !.pc = "done", !.outcome = result,
                                !.resp = data_state_handler(result)]]
    /\ UNCHANGED <<app_state, router>>

\* data_extract_handler up to data_repo.0.retrieve(id).await
DataExtractHandlerCall(r) ==
    /\ reqs[r].pc = "ready"
    /\ reqs[r].handler = "data_extract_handler"
    /\ reqs' = [reqs EXCEPT ![r] =
                  [@ EXCEPT !.pc = "awaiting", !.callee = reqs[r].data_repo]]
    /\ UNCHANGED <<app_state, router>>

\* data_extract_handler that stores the result it got in the shared repository
DataExtractHandlerResume_caching(r) ==
    /\ reqs[r].pc = "awaiting"
    /\ reqs[r].handler = "data_extract_handler"
    /\ LET result == retrieve(reqs[r].callee, reqs[r].id)
       IN  /\ reqs' = [reqs EXCEPT ![r] =
                         [@ EXCEPT !.pc = "done", !.outcome = result,
                                   !.resp = data_extract_handler(result)]]
           /\ app_state' = [app_state EXCEPT !.data_repo = MockArc(result)]
    /\ UNCHANGED router

\* data_extract_handler from the completion of retrieve to the response
DataExtractHandlerResume(r) ==
    /\ reqs[r].pc = "awaiting"
    /\ reqs[r].handler = "data_extract_handler"
    /\ LET result == retrieve(reqs[r].callee, reqs[r].id)
       IN  reqs' = [reqs EXCEPT ![r] =
                      [@ EXCEPT !.pc = "done", !.outcome = result,
                                !.resp = data_extract_handler(result)]]
    /\ UNCHANGED <<app_state, router>>

\* the response is sent; the request's values are dropped
Release(r) ==
    /\ reqs[r].pc = "done"
    /\ reqs' = [reqs EXCEPT ![r] = IdleReq]
    /\ UNCHANGED <<app_state, router>>

Next ==
    \E r \in Reqs :
        \/ \E route \in {"/", "/data/:id", "/pot/:id", "/:id"}, id \in Ids :
              Receive(r, route, id)
        \/ BasicHandler(r)
        \/ DataStateHandlerCall(r)
        \/ DataStateHandlerResume(r)
        \/ DataExtractHandlerCall(r)
        \/ DataExtractHandlerResume(r)
        \/ Release(r)

Spec == Init /\ [][Next]_vars

(***************************************************************************)
(* Properties.                                                             *)
(***************************************************************************)
Done(r) == reqs[r].pc = "done"

Called(r) == reqs[r].pc \in {"awaiting", "done"}

\* C1: for every id, ProdDataRepo.retrieve(id) is Ok(Data{id}) when id <= 10,
\* Err(NotFound) when 10 < id < 1024 and Err(InvalidRequest) when id >= 1024.
C1_ProdRetrieveThreeWay ==
    \A r \in Reqs :
        Done(r) /\ reqs[r].callee.impl = "ProdDataRepo" =>
            LET id == reqs[r].id
                out == reqs[r].outcome
            IN  /\ id <= 10 => out = [tag |-> "Ok", data |-> [id |-> id], err |-> "none"]
                /\ (10 < id /\ id < 1024) => (out.tag = "Err" /\ out.err = "NotFound")
                /\ id >= 1024 => (out.tag = "Err" /\ out.err = "InvalidRequest")

\* two requests answered by the production repository, one on each side of 1024
C1_Witness ==
    \E r1, r2 \in Reqs :
        /\ Done(r1) /\ reqs[r1].callee.impl = "ProdDataRepo"
        /\ reqs[r1].id = 1023 /\ reqs[r1].outcome.err = "NotFound"
        /\ Done(r2) /\ reqs[r2].callee.impl = "ProdDataRepo"
        /\ reqs[r2].id = 1024 /\ reqs[r2].outcome.err = "InvalidRequest"

\* C2: data_state_handler maps Ok(data) to 200 {"id": data.id}, InvalidRequest
\* to 400 {"status":"bad id"} and NotFound to 404 {"status":"not found"}; every
\* outcome has a response and no other status is produced.
C2_StateHandlerMapping ==
    \A r \in Reqs :
        Done(r) /\ reqs[r].handler = "data_state_handler" =>
            LET out == reqs[r].outcome
                resp == reqs[r].resp
            IN  /\ out.tag \in {"Ok", "Err"}
                /\ out.tag = "Ok" =>
                       resp = [status |-> 200, body |-> JsonNum("id", out.data.id)]
                /\ (out.tag = "Err" /\ out.err = "InvalidRequest") =>
                       resp = [status |-> 400, body |-> JsonStr("status", "bad id")]
                /\ (out.tag = "Err" /\ out.err = "NotFound") =>
                       resp = [status |-> 404, body |-> JsonStr("status", "not found")]
                /\ resp.status \in {200, 400, 404}

\* the state handler has answered both error kinds
C2_Witness ==
    \E r1, r2 \in Reqs :
        /\ Done(r1) /\ reqs[r1].handler = "data_state_handler"
        /\ reqs[r1].outcome.err = "InvalidRequest" /\ reqs[r1].resp.status = 400
        /\ Done(r2) /\ reqs[r2].handler = "data_state_handler"
        /\ reqs[r2].outcome.err = "NotFound" /\ reqs[r2].resp.status = 404

\* C3: data_extract_handler answers 200 {"id": data.id} when retrieve succeeds
\* and 418 {"status":"teapot"} for either error, never 400 or 404.
C3_ExtractHandlerMapping ==
    \A r \in Reqs :
        Done(r) /\ reqs[r].handler = "data_extract_handler" =>
            LET out == reqs[r].outcome
                resp == reqs[r].resp
            IN  /\ out.tag = "Ok" =>
                       resp = [status |-> 200, body |-> JsonNum("id", out.data.id)]
                /\ out.tag # "Ok" =>
                       resp = [status |-> 418, body |-> JsonStr("status", "teapot")]
                /\ resp.status \notin {400, 404}

\* the extract handler has answered both error kinds with the same response
C3_Witness ==
    \E r1, r2 \in Reqs :
        /\ Done(r1) /\ reqs[r1].handler = "data_extract_handler"
        /\ reqs[r1].outcome.err = "InvalidRequest"
        /\ Done(r2) /\ reqs[r2].handler = "data_extract_handler"
        /\ reqs[r2].outcome.err = "NotFound"
        /\ reqs[r1].resp = reqs[r2].resp /\ reqs[r1].resp.status = 418

\* C4: in a service built from one AppState, the state-based and the
\* request-based mechanism call the same repository instance, so /data/{id}
\* and /pot/{id} observe the same outcome of retrieve for every id.
C4_SameInstance ==
    app_state.type = "AppState" =>
        \A r1, r2 \in Reqs :
            /\ Called(r1) /\ reqs[r1].handler = "data_state_handler"
            /\ Called(r2) /\ reqs[r2].handler = "data_extract_handler"
            => /\ reqs[r1].callee.inst = reqs[r2].callee.inst
               /\ reqs[r1].callee = app_state.data_repo
               /\ reqs[r2].callee = app_state.data_repo
               /\ (Done(r1) /\ Done(r2) /\ reqs[r1].id = reqs[r2].id)
                      => reqs[r1].outcome = reqs[r2].outcome

\* /data/11 and /pot/11 both answered by the production service
C4_Witness ==
    \E r1, r2 \in Reqs :
        /\ app_state = AppState(ProdArc)
        /\ Done(r1) /\ reqs[r1].route = "/data/:id" /\ reqs[r1].id = 11
        /\ Done(r2) /\ reqs[r2].route = "/pot/:id" /\ reqs[r2].id = 11
        /\ reqs[r1].resp.status = 404 /\ reqs[r2].resp.status = 418

\* C5: the extraction of StateDataRepo never fails and is complete before the
\* handler body calls retrieve; every non-200 response of data_extract_handler
\* comes from an error returned by retrieve.
C5_ExtractionInfallible ==
    \A r \in Reqs :
        reqs[r].handler = "data_extract_handler" =>
            /\ ~reqs[r].rejected
            /\ reqs[r].data_repo # NoRepo
            /\ Called(r) => reqs[r].callee = reqs[r].data_repo
            /\ (Done(r) /\ reqs[r].resp.status # 200) =>
                   (reqs[r].outcome.tag = "Err" /\ reqs[r].outcome.err \in DataRepoError)

\* a 418 of the extract handler under the test state, whose projection
\* allocates the repository during the extraction
C5_Witness ==
    \E r \in Reqs :
        /\ app_state.type = "MockState"
        /\ Done(r) /\ reqs[r].handler = "data_extract_handler"
        /\ reqs[r].resp.status = 418 /\ reqs[r].outcome.tag = "Err"

\* C6: GET / always answers 200 with the fixed body {"id":100}, whatever
\* repository is installed and whatever other requests are in flight, and
\* basic_handler never calls the repository.
C6_BasicFixed ==
    \A r \in Reqs :
        reqs[r].handler = "basic_handler" =>
            /\ reqs[r].callee = NoRepo /\ reqs[r].outcome = NoResult
            /\ reqs[r].pc \in {"ready", "done"}
            /\ Done(r) => reqs[r].resp = [status |-> 200, body |-> JsonNum("id", 100)]

\* GET / answered under a failing mock while another request awaits retrieve
C6_Witness ==
    \E r1, r2 \in Reqs :
        /\ app_state.data_repo.res.tag = "Err"
        /\ Done(r1) /\ reqs[r1].route = "/" /\ reqs[r1].resp.status = 200
        /\ reqs[r2].pc = "awaiting"

\* C7: with a mock in AppState whose retrieve always returns Ok(Data{id: k}),
\* data_state_handler answers 200 {"id": k} for every requested path id.
C7_MockOkSubstitution ==
    (/\ app_state.type = "AppState"
     /\ app_state.data_repo.impl = "MockDataRepo"
     /\ app_state.data_repo.res.tag = "Ok") =>
        \A r \in Reqs :
            Done(r) /\ reqs[r].handler = "data_state_handler" =>
                reqs[r].resp =
                    [status |-> 200,
                     body |-> JsonNum("id", app_state.data_repo.res.data.id)]

\* the mock holding Data{id: 50} answers /data/1024, which production rejects
C7_Witness ==
    \E r \in Reqs :
        /\ app_state.data_repo.impl = "MockDataRepo"
        /\ app_state.data_repo.res = Ok(Data(50))
        /\ Done(r) /\ reqs[r].handler = "data_state_handler" /\ reqs[r].id = 1024
        /\ reqs[r].resp.body.num = 50

\* C8: with a state whose projected repository always fails with NotFound,
\* data_extract_handler answers 418 for every requested id.
C8_MockStateTeapot ==
    app_state.type = "MockState" =>
        \A r \in Reqs :
            Done(r) /\ reqs[r].handler = "data_extract_handler" =>
                reqs[r].resp.status = 418

\* an id the production repository accepts, answered 418 under MockState
C8_Witness ==
    \E r \in Reqs :
        /\ app_state.type = "MockState"
        /\ Done(r) /\ reqs[r].handler = "data_extract_handler"
        /\ reqs[r].id = 10 /\ reqs[r].resp.status = 418

\* C9: against the production repository the response is a function of route
\* and id: a repeated identical request gets an identical response, whatever
\* requests were served in between.
C9_Idempotent ==
    app_state.data_repo.impl = "ProdDataRepo" =>
        \A r1, r2 \in Reqs :
            (/\ Done(r1) /\ Done(r2)
             /\ reqs[r1].route = reqs[r2].route
             /\ reqs[r1].id = reqs[r2].id) => reqs[r1].resp = reqs[r2].resp

\* the same request to /data/10 answered twice by the production service
C9_Witness ==
    \E r1, r2 \in Reqs :
        /\ r1 # r2
        /\ app_state.data_repo.impl = "ProdDataRepo"
        /\ Done(r1) /\ Done(r2)
        /\ reqs[r1].route = "/data/:id" /\ reqs[r2].route = "/data/:id"
        /\ reqs[r1].id = 10 /\ reqs[r2].id = 10
        /\ reqs[r1].resp.status = 200

\* the response of request r when it is the only request of the service
AloneResponse(r) ==
    LET h == reqs[r].handler
        id == reqs[r].id
    IN  CASE h = "basic_handler" -> basic_handler
          [] h = "data_state_handler" ->
                 data_state_handler(retrieve(app_state.data_repo, id))
          [] h = "data_extract_handler" ->
                 data_extract_handler(retrieve(from_ref(app_state, r), id))

\* C10: no request modifies the shared state, and under every interleaving
\* each request receives the response it would receive if handled alone.
C10_SharedReadOnly ==
    /\ [][app_state' = app_state /\ router' = router]_vars
    /\ [](\A r \in Reqs : Done(r) => reqs[r].resp = AloneResponse(r))

\* two requests suspended at retrieve at once, on the one shared instance
C10_Witness ==
    \E r1, r2 \in Reqs :
        /\ r1 # r2
        /\ reqs[r1].pc = "awaiting" /\ reqs[r2].pc = "awaiting"
        /\ reqs[r1].callee.inst = SharedInst /\ reqs[r2].callee.inst = SharedInst

====
